---------------------------- MODULE Spec2Model ----------------------------
(***************************************************************************)
(* cmprs / dcmprs: a self-extracting executable packer.                    *)
(*                                                                         *)
(*   cmprs  (src/cmprs/src/main.rs)   the producer: reads a target file,   *)
(*          hashes and compresses it in two threads and writes the         *)
(*          container to the output path.                                  *)
(*   dcmprs (src/dcmprs/src/main.rs)  the runtime: reads its own image,    *)
(*          locates the payload, decompresses it, rewrites its own file    *)
(*          and execs the decompressed program.                            *)
(*   build.rs (src/cmprs/build.rs)    builds dcmprs and copies the binary  *)
(*          into the producer's embedded directory.                        *)
(*                                                                         *)
(* Files are sequences of bytes (0..255); offsets are 0-based as in the    *)
(* source, Slice(b, i, j) is b[i..j].                                      *)
(***************************************************************************)
EXTENDS Integers, Sequences, FiniteSets, TLC

(***************************************************************************)
(* Bounds of the model.                                                    *)
(***************************************************************************)
\* longest target file the producer is given
MaxInputLen == 2
\* longest argument list (after the program name) the runtime is started with
MaxArgs == 1

(***************************************************************************)
(* Bytes and slices.                                                       *)
(***************************************************************************)
Slice(b, i, j) == SubSeq(b, i + 1, j)

SliceFrom(b, i) == SubSeq(b, i + 1, Len(b))

Min(S) == CHOOSE x \in S : \A y \in S : x <= y

RECURSIVE BitAnd(_, _)
BitAnd(a, b) ==
    IF a = 0 \/ b = 0 THEN 0
    ELSE (a % 2) * (b % 2) + 2 * BitAnd(a \div 2, b \div 2)

RECURSIVE SeqsUpTo(_, _)
SeqsUpTo(S, n) ==
    IF n = 0 THEN {<< >>}
    ELSE LET shorter == SeqsUpTo(S, n - 1)
         IN  shorter \cup {Append(s, x) : s \in shorter, x \in S}

\* b"DCMPRS_DATA_HERE"
MAGIC_HEADER == <<68, 67, 77, 80, 82, 83, 95, 68, 65, 84, 65, 95, 72, 69, 82, 69>>

\* b";;;"
SEPARATOR == <<59, 59, 59>>

\* Option<usize>::None
None == -1

saturating_sub(a, b) == IF a >= b THEN a - b ELSE 0

\* (0..buffer.len().saturating_sub(MAGIC_HEADER.len())).find(|&i| ...)
find_magic_header(buffer) ==
    LET n    == saturating_sub(Len(buffer), Len(MAGIC_HEADER))
        hits == {i \in 0 .. (n - 1) :
                    Slice(buffer, i, i + Len(MAGIC_HEADER)) = MAGIC_HEADER}
    IN  IF hits = {} THEN None ELSE Min(hits)

(***************************************************************************)
(* SHA-256 (crate sha2), as a deterministic function from a byte sequence  *)
(* to 32 bytes.  The hasher is fed chunk by chunk; its state after a chunk *)
(* depends only on the bytes fed so far.                                   *)
(***************************************************************************)
RECURSIVE hasher_update(_, _)
hasher_update(h, chunk) ==
    IF chunk = << >> THEN h
    ELSE hasher_update((h * 33 + Head(chunk) + 1) % 65521, Tail(chunk))

hasher_finalize(h) == [i \in 1 .. 32 |-> (h * (i + 2) + 7 * i) % 256]

Sha256(data) == hasher_finalize(hasher_update(5381, data))

(***************************************************************************)
(* zstd (crate zstd), as a framed stream: the 4-byte frame magic           *)
(* 0xFD2FB528, then one block: its type (0 raw, 1 run-length), its size,   *)
(* and its body.  The decoder reads frames until the input ends and fails  *)
(* on an unknown magic, an unknown block type or an incomplete frame.      *)
(***************************************************************************)
ZSTD_MAGIC == <<40, 181, 47, 253>>

AllSame(data) == \A i \in 1 .. Len(data) : data[i] = data[1]

ZstdEncode(data, level) ==
    IF level >= 3 /\ Len(data) >= 2 /\ AllSame(data)
    THEN ZSTD_MAGIC \o <<1, Len(data), data[1]>>
    ELSE ZSTD_MAGIC \o <<0, Len(data)>> \o data

ZstdError == [ok |-> FALSE, data |-> << >>]

RECURSIVE ZstdDecode(_)
ZstdDecode(c) ==
    IF c = << >> THEN [ok |-> TRUE, data |-> << >>]
    ELSE IF Len(c) < 6 \/ Slice(c, 0, 4) # ZSTD_MAGIC THEN ZstdError
    ELSE LET kind == c[5]
             size == c[6]
             used == IF kind = 0 THEN 6 + size ELSE 7
             body == IF kind = 0 THEN Slice(c, 6, 6 + size)
                     ELSE [i \in 1 .. size |-> c[7]]
         IN  IF kind \notin {0, 1} \/ Len(c) < used THEN ZstdError
             ELSE LET rest == ZstdDecode(SliceFrom(c, used))
                  IN  IF rest.ok
                      THEN [ok |-> TRUE, data |-> body \o rest.data]
                      ELSE ZstdError


\* data.chunks(chunk_size)
RECURSIVE chunks(_, _)
chunks(data, chunk_size) ==
    IF data = << >> THEN << >>
    ELSE IF Len(data) <= chunk_size THEN <<data>>
    ELSE <<Slice(data, 0, chunk_size)>> \o chunks(SliceFrom(data, chunk_size), chunk_size)

\* for chunk in data.chunks(1024 * 1024) { hasher.update(chunk) }; hasher.finalize()
RECURSIVE hash_chunks(_, _)
hash_chunks(h, cs) ==
    IF cs = << >> THEN h ELSE hash_chunks(hasher_update(h, Head(cs)), Tail(cs))

sha256_of(data) == hasher_finalize(hash_chunks(5381, chunks(data, 1024 * 1024)))

\* for chunk in data.chunks(64 * 1024) { encoder.write_all(chunk) }; encoder.finish()
RECURSIVE write_chunks(_, _)
write_chunks(acc, cs) ==
    IF cs = << >> THEN acc ELSE write_chunks(acc \o Head(cs), Tail(cs))

compress_of(data, level) == ZstdEncode(write_chunks(<< >>, chunks(data, 64 * 1024)), level)

(***************************************************************************)
(* Inputs of a run.                                                        *)
(***************************************************************************)
InputBytes == {7, 9}

\* the target files: every byte sequence up to MaxInputLen
InputContents == SeqsUpTo(InputBytes, MaxInputLen)

\* permission bits: 0o755, 0o644
InputModes == {493, 420}

Levels == {1, 3}

\* what compiling dcmprs can yield: an image without the marker, and one
\* that holds the MAGIC_HEADER constant in its data section
CompiledImages == {<<127, 69>>, <<127>> \o MAGIC_HEADER \o <<0>>}

UniversalImage == <<202, 254>>

NoFile == [kind |-> "absent", content |-> << >>, mode |-> 0]

\* mode & 0o111 != 0
is_executable(mode) == BitAnd(mode, 73) # 0

VARIABLES
    b_pc,             \* build.rs: "start", "built", "panicked"
    DIST_DIR,         \* include_dir!("$OUT_DIR/compiled_dcmprs"): file name -> bytes
    p_pc,             \* cmprs main thread
    p_args,           \* Args: compression_level, build_universal_macos
    in_file,          \* the file at args.input
    out_file,         \* the file at output_path
    out_before,       \* the file at output_path when the run started
    input,            \* Vec<u8> read from the input file
    input_permissions,
    hash_thread,      \* [state, result]
    compress_thread,  \* [state, result]
    dcmprs_data,
    p_log,            \* warn!/error! records of the producer
    r_pc,             \* dcmprs main thread
    exe_file,         \* the file at current_exe
    exe_before,       \* the bytes of that file when the run started
    argv,             \* the process's arguments, program name first
    environ,          \* the process's environment: a set of <<key, value>>
    buffer,           \* Vec<u8> read from current_exe
    magic_pos,
    decompressed_data,
    temp_file,        \* the NamedTempFile on disk
    args,             \* env::args().skip(1).collect()
    cmd,              \* the Command being built: program, args, env
    replacement,      \* the replacement thread: [state, open_ok, write_ok, sync_ok]
    r_log,            \* warn! records of the runtime
    r_diag,           \* the message the runtime ends with
    launched,         \* the process image after a successful exec
    reader            \* a second process that reads the file at the original path

pvars == <<b_pc, DIST_DIR, p_pc, p_args, in_file, out_file, out_before, input,
           input_permissions, hash_thread, compress_thread, dcmprs_data, p_log>>

rvars == <<r_pc, exe_file, exe_before, argv, environ, buffer, magic_pos,
           decompressed_data, temp_file, args, cmd, replacement, r_log, r_diag, launched,
           reader>>

vars == <<pvars, rvars>>

NoThread == [state |-> "none", result |-> << >>]

PInit ==
    /\ b_pc = "start"
    /\ DIST_DIR = << >>
    /\ p_pc = "idle"
    /\ p_args = [compression_level |-> 3, build_universal_macos |-> FALSE]
    /\ in_file = NoFile
    /\ out_file = NoFile
    /\ out_before = NoFile
    /\ input = << >>
    /\ input_permissions = 0
    /\ hash_thread = NoThread
    /\ compress_thread = NoThread
    /\ dcmprs_data = << >>
    /\ p_log = {}

p_running == p_pc \notin {"idle", "done", "failed", "panicked"}

\* exit status of the producer process: Ok(()) is 0, Err is 1, a panic is 101
p_exit_code ==
    CASE p_pc = "done" -> 0
      [] p_pc = "failed" -> 1
      [] p_pc = "panicked" -> 101
      [] OTHER -> None

(***************************************************************************)
(* build.rs: build dcmprs, pick the binary that exists, copy it.           *)
(***************************************************************************)
Build ==
    /\ b_pc = "start" /\ r_pc = "idle"
    /\ \/ \* assert!(status.success()) or the "not found" panic
          /\ b_pc' = "panicked"
          /\ UNCHANGED DIST_DIR
       \/ \E main \in CompiledImages, universal \in BOOLEAN, has_main \in BOOLEAN :
          /\ b_pc' = "built"
          /\ DIST_DIR' =
                [n \in (IF has_main THEN {"main"} ELSE {})
                       \cup (IF universal THEN {"macos_universal"} ELSE {}) |->
                    IF n = "main" THEN main ELSE UniversalImage]
    /\ UNCHANGED rvars
    /\ UNCHANGED <<p_pc, p_args, in_file, out_file, out_before, input,
                   input_permissions, hash_thread, compress_thread, dcmprs_data, p_log>>

\* DIST_DIR.get_file(name)
get_file(name) ==
    IF name \in DOMAIN DIST_DIR
    THEN [some |-> TRUE, contents |-> DIST_DIR[name]]
    ELSE [some |-> FALSE, contents |-> << >>]

(***************************************************************************)
(* cmprs main(): the main thread, one action per I/O step.                 *)
(***************************************************************************)
\* a run of cmprs: Args::parse(), over some input file and output path
P_Start ==
    /\ b_pc = "built" /\ p_pc = "idle"
    /\ p_pc' = "start"
    /\ p_args' \in [compression_level : Levels, build_universal_macos : BOOLEAN]
    /\ in_file' \in {NoFile}
                    \cup [kind : {"file"}, content : InputContents, mode : InputModes]
                    \cup [kind : {"dir"}, content : {<< >>}, mode : {493}]
    /\ out_file' \in {NoFile,
                      [kind |-> "file", content |-> <<1>>, mode |-> 384],
                      [kind |-> "dir", content |-> << >>, mode |-> 493]}
    /\ out_before' = out_file'
    /\ UNCHANGED rvars
    /\ UNCHANGED <<b_pc, DIST_DIR, input, input_permissions, hash_thread,
                   compress_thread, dcmprs_data, p_log>>

\* File::open(&args.input)?, metadata, permissions, the "not executable" warning
P_Open ==
    /\ p_pc = "start"
    /\ IF in_file.kind = "absent"
       THEN /\ p_pc' = "failed"
            /\ UNCHANGED <<input_permissions, p_log>>
       ELSE /\ p_pc' = "opened"
            /\ input_permissions' = in_file.mode
            /\ p_log' = IF is_executable(in_file.mode) THEN p_log
                        ELSE p_log \cup {"warn: input file is not executable"}
    /\ UNCHANGED rvars
    /\ UNCHANGED <<b_pc, DIST_DIR, p_args, in_file, out_file, out_before, input,
                   hash_thread, compress_thread, dcmprs_data>>

\* P_Read with the read error dropped: the run goes on with an empty buffer
P_Read_ErrorDropped ==
    /\ p_pc = "opened"
    /\ p_pc' = "read"
    /\ input' = IF in_file.kind = "dir" THEN << >> ELSE in_file.content
    /\ UNCHANGED rvars
    /\ UNCHANGED <<b_pc, DIST_DIR, p_args, in_file, out_file, out_before,
                   input_permissions, hash_thread, compress_thread, dcmprs_data, p_log>>

\* input_file.read_to_end(&mut input)?   (reading a directory fails)
P_Read ==
    /\ p_pc = "opened"
    /\ IF in_file.kind = "dir"
       THEN p_pc' = "failed" /\ UNCHANGED input
       ELSE p_pc' = "read" /\ input' = in_file.content
    /\ UNCHANGED rvars
    /\ UNCHANGED <<b_pc, DIST_DIR, p_args, in_file, out_file, out_before,
                   input_permissions, hash_thread, compress_thread, dcmprs_data, p_log>>

\* let hash_thread = thread::spawn(...)
P_SpawnHash ==
    /\ p_pc = "read"
    /\ p_pc' = "hash_spawned"
    /\ hash_thread' = [state |-> "running", result |-> << >>]
    /\ UNCHANGED rvars
    /\ UNCHANGED <<b_pc, DIST_DIR, p_args, in_file, out_file, out_before, input,
                   input_permissions, compress_thread, dcmprs_data, p_log>>

\* let compress_thread = thread::spawn(...)
P_SpawnCompress ==
    /\ p_pc = "hash_spawned"
    /\ p_pc' = "compress_spawned"
    /\ compress_thread' = [state |-> "running", result |-> << >>]
    /\ UNCHANGED rvars
    /\ UNCHANGED <<b_pc, DIST_DIR, p_args, in_file, out_file, out_before, input,
                   input_permissions, hash_thread, dcmprs_data, p_log>>

\* the SHA256 thread: hash the shared input, return the digest
T_Hash ==
    /\ p_running
    /\ hash_thread.state = "running"
    /\ hash_thread' = [state |-> "finished", result |-> sha256_of(input)]
    /\ UNCHANGED rvars
    /\ UNCHANGED <<b_pc, DIST_DIR, p_pc, p_args, in_file, out_file, out_before, input,
                   input_permissions, compress_thread, dcmprs_data, p_log>>

\* T_Compress taking the bytes out of the shared buffer as it encodes them
T_Compress_TakesInput ==
    /\ p_running
    /\ compress_thread.state = "running"
    /\ \/ compress_thread' = [state |-> "finished",
                              result |-> compress_of(input, p_args.compression_level)]
       \/ compress_thread' = [state |-> "panicked", result |-> << >>]
    /\ input' = << >>
    /\ UNCHANGED rvars
    /\ UNCHANGED <<b_pc, DIST_DIR, p_pc, p_args, in_file, out_file, out_before,
                   input_permissions, hash_thread, dcmprs_data, p_log>>

\* the compression thread: encode the shared input; an encoder error panics
\* the thread (expect)
T_Compress ==
    /\ p_running
    /\ compress_thread.state = "running"
    /\ \/ compress_thread' = [state |-> "finished",
                              result |-> compress_of(input, p_args.compression_level)]
       \/ compress_thread' = [state |-> "panicked", result |-> << >>]
    /\ UNCHANGED rvars
    /\ UNCHANGED <<b_pc, DIST_DIR, p_pc, p_args, in_file, out_file, out_before, input,
                   input_permissions, hash_thread, dcmprs_data, p_log>>

\* dcmprs_file without the fallback: the variant asked for, or nothing
dcmprs_file_NoFallback ==
    IF p_args.build_universal_macos
    THEN get_file("macos_universal")
    ELSE get_file("main")

\* dcmprs_file: the universal image when asked for and present, else "main"
dcmprs_file ==
    IF p_args.build_universal_macos /\ get_file("macos_universal").some
    THEN get_file("macos_universal")
    ELSE get_file("main")

\* let dcmprs_data = dcmprs_file.unwrap().contents()
P_LoadDcmprs ==
    /\ p_pc = "compress_spawned"
    /\ p_log' = IF p_args.build_universal_macos /\ ~get_file("macos_universal").some
                THEN p_log \cup {"error: universal macOS binary not found, falling back"}
                ELSE p_log
    /\ IF dcmprs_file.some
       THEN p_pc' = "loaded" /\ dcmprs_data' = dcmprs_file.contents
       ELSE p_pc' = "panicked" /\ UNCHANGED dcmprs_data
    /\ UNCHANGED rvars
    /\ UNCHANGED <<b_pc, DIST_DIR, p_args, in_file, out_file, out_before, input,
                   input_permissions, hash_thread, compress_thread>>

\* File::create(&output_path)?  creates the file (0o644) or truncates it
P_Create ==
    /\ p_pc = "loaded"
    /\ IF out_file.kind = "dir"
       THEN p_pc' = "failed" /\ UNCHANGED out_file
       ELSE /\ p_pc' = "created"
            /\ out_file' = [kind |-> "file", content |-> << >>,
                            mode |-> IF out_file.kind = "file" THEN out_file.mode ELSE 420]
    /\ UNCHANGED rvars
    /\ UNCHANGED <<b_pc, DIST_DIR, p_args, in_file, out_before, input,
                   input_permissions, hash_thread, compress_thread, dcmprs_data, p_log>>

\* output.write_all(bytes)?  either appends the bytes, or fails and the run ends
write_all(to, bytes) ==
    /\ \/ /\ p_pc' = to
          /\ out_file' = [out_file EXCEPT !.content = @ \o bytes]
       \/ /\ p_pc' = "failed"
          /\ UNCHANGED out_file
    /\ UNCHANGED rvars
    /\ UNCHANGED <<b_pc, DIST_DIR, p_args, in_file, out_before, input,
                   input_permissions, hash_thread, compress_thread, dcmprs_data, p_log>>

\* output.write_all(dcmprs_data)?
P_WriteDcmprs ==
    /\ p_pc = "created"
    /\ write_all("wrote_dcmprs", dcmprs_data)

\* output.write_all(MAGIC_HEADER)?
P_WriteMagic ==
    /\ p_pc = "wrote_dcmprs"
    /\ write_all("wrote_magic", MAGIC_HEADER)

\* output.write_all(b";;;")?
P_WriteSeparator ==
    /\ p_pc = "wrote_magic"
    /\ write_all("wrote_separator", SEPARATOR)

\* P_WriteHash without the join: whatever the hash thread has so far is written
P_WriteHash_NoJoin ==
    /\ p_pc = "wrote_separator"
    /\ write_all("wrote_hash", hash_thread.result)

\* hash_thread.join(); output.write_all(&sha256_hash)?
P_WriteHash ==
    /\ p_pc = "wrote_separator"
    /\ hash_thread.state = "finished"
    /\ write_all("wrote_hash", hash_thread.result)

\* P_WriteCompressed taking a panicked thread's result as an empty payload
P_WriteCompressed_IgnorePanic ==
    /\ p_pc = "wrote_hash"
    /\ compress_thread.state \in {"finished", "panicked"}
    /\ write_all("wrote_compressed", compress_thread.result)

\* compress_thread.join().expect(..); output.write_all(&compressed)?
P_WriteCompressed ==
    /\ p_pc = "wrote_hash"
    /\ \/ /\ compress_thread.state = "finished"
          /\ write_all("wrote_compressed", compress_thread.result)
       \/ /\ compress_thread.state = "panicked"
          /\ p_pc' = "panicked"
          /\ UNCHANGED rvars
          /\ UNCHANGED <<b_pc, DIST_DIR, p_args, in_file, out_file, out_before, input,
                         input_permissions, hash_thread, compress_thread, dcmprs_data,
                         p_log>>

\* P_SetPermissions marking the output executable instead of copying the bits
P_SetPermissions_Executable ==
    /\ p_pc = "wrote_compressed"
    /\ \/ /\ p_pc' = "done"
          /\ out_file' = [out_file EXCEPT !.mode = 493]
       \/ /\ p_pc' = "failed"
          /\ UNCHANGED out_file
    /\ UNCHANGED rvars
    /\ UNCHANGED <<b_pc, DIST_DIR, p_args, in_file, out_before, input,
                   input_permissions, hash_thread, compress_thread, dcmprs_data, p_log>>

\* output.set_permissions(input_permissions)?; Ok(())
P_SetPermissions ==
    /\ p_pc = "wrote_compressed"
    /\ \/ /\ p_pc' = "done"
          /\ out_file' = [out_file EXCEPT !.mode = input_permissions]
       \/ /\ p_pc' = "failed"
          /\ UNCHANGED out_file
    /\ UNCHANGED rvars
    /\ UNCHANGED <<b_pc, DIST_DIR, p_args, in_file, out_before, input,
                   input_permissions, hash_thread, compress_thread, dcmprs_data, p_log>>

(***************************************************************************)
(* The files dcmprs is run as, its arguments and its environment.          *)
(***************************************************************************)
\* [dcmprs executable][MAGIC_HEADER][32-byte SHA256][zstd compressed data]
Container(boot, digest, payload) == boot \o MAGIC_HEADER \o digest \o payload

Prefixes(c) == {Slice(c, 0, n) : n \in 0 .. Len(c)}

\* the programs packed into the containers dcmprs is given
Programs == {<<7>>, <<7, 7>>}

GoodContainers ==
    {Container(<<127, 69>>, Sha256(f), ZstdEncode(f, 3)) : f \in Programs}

\* a container and every truncation of it; one with the digest of another
\* program; one whose compressed stream is corrupt; one whose bootstrap
\* holds the marker; one followed by bytes that are no frame
GivenFiles ==
    UNION {Prefixes(c) : c \in GoodContainers}
    \cup {Container(<<127, 69>>, Sha256(<<9>>), ZstdEncode(<<7>>, 3)),
          Container(<<127, 69>>, Sha256(<<7>>), <<40, 181, 47, 0, 0, 1, 7>>),
          Container(<<127>> \o MAGIC_HEADER \o <<0>>, Sha256(<<7>>), ZstdEncode(<<7>>, 3)),
          Container(<<127, 69>>, Sha256(<<7>>), ZstdEncode(<<7>>, 3) \o <<0>>)}

\* "--flag", and an argument that is not valid Unicode
ArgUniverse == {<<45, 45, 102, 108, 97, 103>>, <<255>>}

\* "dcmprs"
ProgramName == <<100, 99, 109, 112, 114, 115>>

Argvs == {<<ProgramName>> \o a : a \in SeqsUpTo(ArgUniverse, MaxArgs)}

\* FOO=bar, and a variable whose value is not valid Unicode
EnvUniverse == {<<<<70, 79, 79>>, <<98, 97, 114>>>>, <<<<66>>, <<255>>>>}

\* std accepts exactly the OsStrings that are valid UTF-8; of the bytes used
\* here those are the ASCII ones
is_unicode(os) == \A i \in 1 .. Len(os) : os[i] < 128

NoProcess == [program |-> "", args |-> << >>, env |-> {}]

NoReader == [state |-> "idle", buffer |-> << >>, during |-> "none"]

NoReplacement == [state |-> "none", open_ok |-> FALSE, write_ok |-> FALSE, sync_ok |-> FALSE]

RInit ==
    /\ r_pc = "idle"
    /\ exe_file = NoFile
    /\ exe_before = << >>
    /\ argv = << >>
    /\ environ = {}
    /\ buffer = << >>
    /\ magic_pos = None
    /\ decompressed_data = << >>
    /\ temp_file = NoFile
    /\ args = << >>
    /\ cmd = NoProcess
    /\ replacement = NoReplacement
    /\ r_log = {}
    /\ r_diag = ""
    /\ launched = NoProcess
    /\ reader = NoReader

Init == PInit /\ RInit

\* exit status of the runtime: process::exit(1), Err is 1, a panic is 101; a
\* successful exec never returns
r_exit_code ==
    CASE r_pc = "exited" -> 1
      [] r_pc = "failed" -> 1
      [] r_pc = "panicked" -> 101
      [] OTHER -> None

r_terminated == r_pc \in {"exited", "failed", "panicked", "launched"}

(***************************************************************************)
(* dcmprs main(): the main thread.                                         *)
(***************************************************************************)
\* the container is run: current_exe()?, File::open?, read_to_end?
run_as(file) ==
    /\ r_pc = "idle"
    /\ is_executable(file.mode)
    /\ r_pc' = "read"
    /\ exe_file' = file
    /\ exe_before' = file.content
    /\ buffer' = file.content
    /\ argv' \in Argvs
    /\ environ' \in SUBSET EnvUniverse
    /\ UNCHANGED <<pvars, reader>>
    /\ UNCHANGED <<magic_pos, decompressed_data, temp_file, args, cmd, replacement,
                   r_log, r_diag, launched>>

\* the file cmprs has just written is run
R_StartProduced ==
    /\ p_pc = "done"
    /\ run_as(out_file)

\* some other file holding dcmprs is run
R_StartGiven ==
    /\ b_pc = "start"
    /\ \E c \in GivenFiles : run_as([kind |-> "file", content |-> c, mode |-> 493])

\* let magic_pos = find_magic_header(&buffer); none: warn!, process::exit(1)
R_Locate ==
    /\ r_pc = "read"
    /\ magic_pos' = find_magic_header(buffer)
    /\ IF magic_pos' = None
       THEN /\ r_pc' = "exited"
            /\ r_diag' = "warn: No magic header found"
            /\ r_log' = r_log \cup {r_diag'}
       ELSE /\ r_pc' = "located"
            /\ UNCHANGED <<r_diag, r_log>>
    /\ UNCHANGED <<pvars, reader>>
    /\ UNCHANGED <<exe_file, exe_before, argv, environ, buffer, decompressed_data,
                   temp_file, args, cmd, replacement, launched>>

\* let data_start = magic_pos + MAGIC_HEADER.len()
data_start == magic_pos + Len(MAGIC_HEADER)

\* if data_start + 32 >= buffer.len() { warn!; process::exit(1) }
R_CheckLength ==
    /\ r_pc = "located"
    /\ IF data_start + 32 >= Len(buffer)
       THEN /\ r_pc' = "exited"
            /\ r_diag' = "warn: No SHA256 hash or compressed data found after magic header"
            /\ r_log' = r_log \cup {r_diag'}
       ELSE /\ r_pc' = "checked"
            /\ UNCHANGED <<r_diag, r_log>>
    /\ UNCHANGED <<pvars, reader>>
    /\ UNCHANGED <<exe_file, exe_before, argv, environ, buffer, magic_pos,
                   decompressed_data, temp_file, args, cmd, replacement, launched>>

\* let compressed_data = &buffer[data_start + 32..]
compressed_data == SliceFrom(buffer, data_start + 32)

\* the 32 bytes the runtime skips: &buffer[data_start..data_start + 32]
stored_digest == Slice(buffer, data_start, data_start + 32)

\* R_Decompress with the decoder's error dropped: the run goes on with
\* whatever was decoded
R_Decompress_ErrorDropped ==
    /\ r_pc = "checked"
    /\ r_pc' = "decompressed"
    /\ decompressed_data' = ZstdDecode(compressed_data).data
    /\ UNCHANGED <<pvars, reader>>
    /\ UNCHANGED <<exe_file, exe_before, argv, environ, buffer, magic_pos,
                   temp_file, args, cmd, replacement, r_log, r_diag, launched>>

\* ZstdDecoder::new(compressed_data)?; decoder.read_to_end(&mut decompressed_data)?
R_Decompress ==
    /\ r_pc = "checked"
    /\ LET d == ZstdDecode(compressed_data)
       IN  IF d.ok
           THEN /\ r_pc' = "decompressed"
                /\ decompressed_data' = d.data
                /\ UNCHANGED r_diag
           ELSE /\ r_pc' = "failed"
                /\ r_diag' = "Error: zstd decoding failed"
                /\ UNCHANGED decompressed_data
    /\ UNCHANGED <<pvars, reader>>
    /\ UNCHANGED <<exe_file, exe_before, argv, environ, buffer, magic_pos,
                   temp_file, args, cmd, replacement, r_log, launched>>

\* NamedTempFile::new()?; write_all?; metadata?; set_mode(0o755); set_permissions?
R_TempFile ==
    /\ r_pc = "decompressed"
    /\ \/ /\ r_pc' = "materialized"
          /\ temp_file' = [kind |-> "file", content |-> decompressed_data, mode |-> 493]
          /\ UNCHANGED r_diag
       \/ /\ r_pc' = "failed"
          /\ r_diag' = "Error: temporary file"
          /\ UNCHANGED temp_file
    /\ UNCHANGED <<pvars, reader>>
    /\ UNCHANGED <<exe_file, exe_before, argv, environ, buffer, magic_pos,
                   decompressed_data, args, cmd, replacement, r_log, launched>>

\* let args: Vec<String> = env::args().skip(1).collect();  env::args() panics
\* on an argument that is not valid Unicode; the unwinding drops the temp file
R_Args ==
    /\ r_pc = "materialized"
    /\ IF \A i \in 1 .. Len(argv) : is_unicode(argv[i])
       THEN /\ r_pc' = "args_collected"
            /\ args' = Tail(argv)
            /\ UNCHANGED <<temp_file, r_diag>>
       ELSE /\ r_pc' = "panicked"
            /\ r_diag' = "panic: invalid unicode in argument"
            /\ temp_file' = NoFile
            /\ UNCHANGED args
    /\ UNCHANGED <<pvars, reader>>
    /\ UNCHANGED <<exe_file, exe_before, argv, environ, buffer, magic_pos,
                   decompressed_data, cmd, replacement, r_log, launched>>

\* let replacement_handle = thread::spawn(...)
R_Spawn ==
    /\ r_pc = "args_collected"
    /\ r_pc' = "spawned"
    /\ replacement' = [NoReplacement EXCEPT !.state = "running"]
    /\ UNCHANGED <<pvars, reader>>
    /\ UNCHANGED <<exe_file, exe_before, argv, environ, buffer, magic_pos,
                   decompressed_data, temp_file, args, cmd, r_log, r_diag, launched>>

\* R_Command handing the original path to Command::new
R_Command_OriginalPath ==
    /\ r_pc = "spawned"
    /\ IF \A kv \in environ : is_unicode(kv[1]) /\ is_unicode(kv[2])
       THEN /\ r_pc' = "command_built"
            /\ cmd' = [program |-> "current_exe", args |-> args, env |-> environ]
            /\ UNCHANGED <<temp_file, r_diag>>
       ELSE /\ r_pc' = "panicked"
            /\ r_diag' = "panic: invalid unicode in environment"
            /\ temp_file' = NoFile
            /\ UNCHANGED cmd
    /\ UNCHANGED <<pvars, reader>>
    /\ UNCHANGED <<exe_file, exe_before, argv, environ, buffer, magic_pos,
                   decompressed_data, args, replacement, r_log, launched>>

\* Command::new(&temp_path); cmd.args(&args); for (key, value) in env::vars()
\* { cmd.env(key, value) }   env::vars() panics on a variable that is not
\* valid Unicode
R_Command ==
    /\ r_pc = "spawned"
    /\ IF \A kv \in environ : is_unicode(kv[1]) /\ is_unicode(kv[2])
       THEN /\ r_pc' = "command_built"
            /\ cmd' = [program |-> "temp_path", args |-> args, env |-> environ]
            /\ UNCHANGED <<temp_file, r_diag>>
       ELSE /\ r_pc' = "panicked"
            /\ r_diag' = "panic: invalid unicode in environment"
            /\ temp_file' = NoFile
            /\ UNCHANGED cmd
    /\ UNCHANGED <<pvars, reader>>
    /\ UNCHANGED <<exe_file, exe_before, argv, environ, buffer, magic_pos,
                   decompressed_data, args, replacement, r_log, launched>>

\* R_Join without the join: the main thread goes on while the thread runs
R_Join_NoWait ==
    /\ r_pc = "command_built"
    /\ r_pc' = "joined"
    /\ UNCHANGED <<pvars, reader>>
    /\ UNCHANGED <<exe_file, exe_before, argv, environ, buffer, magic_pos,
                   decompressed_data, temp_file, args, cmd, replacement, r_log,
                   r_diag, launched>>

\* let _ = replacement_handle.join()
R_Join ==
    /\ r_pc = "command_built"
    /\ replacement.state = "finished"
    /\ r_pc' = "joined"
    /\ UNCHANGED <<pvars, reader>>
    /\ UNCHANGED <<exe_file, exe_before, argv, environ, buffer, magic_pos,
                   decompressed_data, temp_file, args, cmd, replacement, r_log,
                   r_diag, launched>>

\* the environment of the program a Command starts: the inherited variables,
\* overridden by those set on the Command
child_env(c) ==
    {kv \in environ : \A set \in c.env : set[1] # kv[1]} \cup c.env

\* let err = cmd.exec(); warn!("exec() failed"); Err(err)
R_Exec ==
    /\ r_pc = "joined"
    /\ \/ /\ r_pc' = "launched"
          /\ launched' = [program |-> cmd.program, args |-> cmd.args, env |-> child_env(cmd)]
          /\ UNCHANGED <<temp_file, r_log, r_diag>>
       \/ /\ r_pc' = "failed"
          /\ r_log' = r_log \cup {"warn: exec() failed"}
          /\ r_diag' = "Error: exec"
          /\ temp_file' = NoFile
          /\ UNCHANGED launched
    /\ UNCHANGED <<pvars, reader>>
    /\ UNCHANGED <<exe_file, exe_before, argv, environ, buffer, magic_pos,
                   decompressed_data, args, cmd, replacement>>

(***************************************************************************)
(* dcmprs: the replacement thread.  It runs while the main thread lives.   *)
(***************************************************************************)
r_main_alive == r_pc \in {"spawned", "command_built"}

\* T_ReplaceOpen without .truncate(true): the bytes stay until overwritten
T_ReplaceOpen_NoTruncate ==
    /\ r_main_alive
    /\ replacement.state = "running"
    /\ \/ /\ replacement' = [replacement EXCEPT !.state = "opened", !.open_ok = TRUE]
          /\ UNCHANGED <<exe_file, r_log>>
       \/ /\ replacement' = [replacement EXCEPT !.state = "finished"]
          /\ r_log' = r_log \cup {"warn: Failed to open original file for replacement"}
          /\ UNCHANGED exe_file
    /\ UNCHANGED <<pvars, reader>>
    /\ UNCHANGED <<r_pc, exe_before, argv, environ, buffer, magic_pos,
                   decompressed_data, temp_file, args, cmd, r_diag, launched>>

\* OpenOptions::new().write(true).truncate(true).open(&current_exe_clone)
\* Ok: the file is now empty.  Err: warn!("Failed to open ...")
T_ReplaceOpen ==
    /\ r_main_alive
    /\ replacement.state = "running"
    /\ \/ /\ replacement' = [replacement EXCEPT !.state = "opened", !.open_ok = TRUE]
          /\ exe_file' = [exe_file EXCEPT !.content = << >>]
          /\ UNCHANGED r_log
       \/ /\ replacement' = [replacement EXCEPT !.state = "finished"]
          /\ r_log' = r_log \cup {"warn: Failed to open original file for replacement"}
          /\ UNCHANGED exe_file
    /\ UNCHANGED <<pvars, reader>>
    /\ UNCHANGED <<r_pc, exe_before, argv, environ, buffer, magic_pos,
                   decompressed_data, temp_file, args, cmd, r_diag, launched>>

\* T_ReplaceWrite with one write() in place of write_all: a short write
\* counts as success
T_ReplaceWrite_ShortWrite ==
    /\ r_main_alive
    /\ replacement.state = "opened"
    /\ \E n \in 0 .. Len(decompressed_data) :
          /\ replacement' = [replacement EXCEPT !.state = "written", !.write_ok = TRUE]
          /\ exe_file' = [exe_file EXCEPT !.content = Slice(decompressed_data, 0, n)]
    /\ UNCHANGED <<pvars, reader>>
    /\ UNCHANGED <<r_pc, exe_before, argv, environ, buffer, magic_pos,
                   decompressed_data, temp_file, args, cmd, r_log, r_diag, launched>>

\* let _ = output_file.write_all(&decompressed_data_clone);  an error leaves
\* some proper prefix of the data written and is dropped
T_ReplaceWrite ==
    /\ r_main_alive
    /\ replacement.state = "opened"
    /\ \/ /\ replacement' = [replacement EXCEPT !.state = "written", !.write_ok = TRUE]
          /\ exe_file' = [exe_file EXCEPT !.content = decompressed_data]
       \/ \E n \in 0 .. (Len(decompressed_data) - 1) :
          /\ replacement' = [replacement EXCEPT !.state = "written"]
          /\ exe_file' = [exe_file EXCEPT !.content = Slice(decompressed_data, 0, n)]
    /\ UNCHANGED <<pvars, reader>>
    /\ UNCHANGED <<r_pc, exe_before, argv, environ, buffer, magic_pos,
                   decompressed_data, temp_file, args, cmd, r_log, r_diag, launched>>

\* let _ = output_file.sync_all(); debug!("File replacement completed")
T_ReplaceSync ==
    /\ r_main_alive
    /\ replacement.state = "written"
    /\ \E ok \in BOOLEAN :
          replacement' = [replacement EXCEPT !.state = "finished", !.sync_ok = ok]
    /\ UNCHANGED <<pvars, reader>>
    /\ UNCHANGED <<r_pc, exe_file, exe_before, argv, environ, buffer, magic_pos,
                   decompressed_data, temp_file, args, cmd, r_log, r_diag, launched>>

(***************************************************************************)
(* A second process that reads the file at the original path once, as a    *)
(* second instance of dcmprs does with File::open(&current_exe) and        *)
(* read_to_end, at any moment from the spawn of the replacement thread on. *)
(* It records what it read and what the replacement thread was doing.      *)
(***************************************************************************)
Reader_Read ==
    /\ replacement.state # "none"
    /\ reader.state = "idle"
    /\ reader' = [state |-> "read", buffer |-> exe_file.content,
                  during |-> replacement.state]
    /\ UNCHANGED pvars
    /\ UNCHANGED <<r_pc, exe_file, exe_before, argv, environ, buffer, magic_pos,
                   decompressed_data, temp_file, args, cmd, replacement, r_log,
                   r_diag, launched>>

Next ==
    \/ Build
    \/ P_Start \/ P_Open \/ P_Read \/ P_SpawnHash \/ P_SpawnCompress \/ T_Hash \/ T_Compress
    \/ P_LoadDcmprs \/ P_Create \/ P_WriteDcmprs \/ P_WriteMagic \/ P_WriteSeparator
    \/ P_WriteHash \/ P_WriteCompressed \/ P_SetPermissions
    \/ R_StartProduced \/ R_StartGiven \/ R_Locate \/ R_CheckLength \/ R_Decompress
    \/ R_TempFile \/ R_Args \/ R_Spawn \/ R_Command \/ R_Join \/ R_Exec
    \/ T_ReplaceOpen \/ T_ReplaceWrite \/ T_ReplaceSync
    \/ Reader_Read

Spec == Init /\ [][Next]_vars

(***************************************************************************)
(* Notions the properties are stated with.                                 *)
(***************************************************************************)
\* the offsets at which the 16 marker bytes occur in b
marker_offsets(b) ==
    {i \in 0 .. (Len(b) - Len(MAGIC_HEADER)) :
        Slice(b, i, i + Len(MAGIC_HEADER)) = MAGIC_HEADER}

\* dcmprs is running, or has run, as the file cmprs wrote
runs_produced == p_pc = "done" /\ r_pc # "idle"

\* the runtime's decode is over: marker search, length check and
\* decompression have all been done or one of them has ended the run
decode_over == r_pc \notin {"idle", "read", "located", "checked"}

decode_succeeded ==
    /\ decode_over
    /\ r_pc # "exited"
    /\ r_diag # "Error: zstd decoding failed"

(***************************************************************************)
(* C1.  Container integrity: decoding the container the producer writes    *)
(* for a file F (find the first marker, take the next 32 bytes as digest,  *)
(* decompress the rest) succeeds, the digest equals the hash of F and the  *)
(* decompressed payload equals F.                                          *)
(***************************************************************************)
C1_ContainerIntegrity ==
    (runs_produced /\ decode_over) =>
        /\ decode_succeeded
        /\ stored_digest = Sha256(in_file.content)
        /\ decompressed_data = in_file.content

(***************************************************************************)
(* C2.  The file a successful producer run leaves is exactly bootstrap,    *)
(* marker, digest, compressed payload: with m the length of the bootstrap, *)
(* the marker is at m, the digest is bytes [m+16, m+48) and the compressed *)
(* stream starts at m+48.                                                  *)
(***************************************************************************)
C2_Layout ==
    p_pc = "done" =>
        LET m == Len(dcmprs_data)
            f == out_file.content
        IN  /\ f = dcmprs_data \o MAGIC_HEADER \o Sha256(input)
                     \o ZstdEncode(input, p_args.compression_level)
            /\ Slice(f, m, m + 16) = MAGIC_HEADER
            /\ Slice(f, m + 16, m + 48) = Sha256(input)
            /\ SliceFrom(f, m + 48) = ZstdEncode(input, p_args.compression_level)

(***************************************************************************)
(* C3.  Marker safety: no image in the producer's embedded table holds the *)
(* marker, so the first marker of a produced container is the one the      *)
(* producer wrote, right after the bootstrap.                              *)
(***************************************************************************)
C3_MarkerSafety ==
    /\ \A n \in DOMAIN DIST_DIR : marker_offsets(DIST_DIR[n]) = {}
    /\ p_pc = "done" => Min(marker_offsets(out_file.content)) = Len(dcmprs_data)

(***************************************************************************)
(* C4.  Truncation: a file whose first marker is complete at offset m and  *)
(* whose length L satisfies m+16 <= L < m+48 is refused with the           *)
(* truncation diagnostic, not with the marker-not-found one, and nothing   *)
(* is decompressed or launched.                                            *)
(***************************************************************************)
C4_Truncation ==
    LET offs == marker_offsets(exe_before)
    IN  (r_pc \notin {"idle", "read", "located"} /\ offs # {}
            /\ Len(exe_before) < Min(offs) + 16 + 32) =>
            /\ r_pc = "exited"
            /\ r_diag = "warn: No SHA256 hash or compressed data found after magic header"
            /\ launched = NoProcess
            /\ temp_file = NoFile

\* what is wrong with b as a container, by the layout's own terms
format_error(b) ==
    LET offs == marker_offsets(b)
    IN  IF offs = {} THEN "marker_not_found"
        ELSE IF Min(offs) + 16 + 32 >= Len(b) THEN "truncated"
        ELSE IF ~ZstdDecode(SliceFrom(b, Min(offs) + 16 + 32)).ok
             THEN "decompression_failed"
        ELSE "none"

C6_DigestMismatchNoticed ==
    (r_pc = "launched" /\ stored_digest # Sha256(decompressed_data)) =>
        \E w \in r_log : w # "warn: Failed to open original file for replacement"

(***************************************************************************)
(* C7.  Pass-through: whatever the arguments and the environment, a run    *)
(* that has its temporary file reaches the exec, and the program launched  *)
(* gets exactly the arguments after the program name, in order, and        *)
(* exactly the inherited environment.                                      *)
(***************************************************************************)
C7_PassThrough ==
    /\ r_pc # "panicked"
    /\ r_pc = "launched" =>
          /\ launched.args = Tail(argv)
          /\ launched.env = environ

has_execute_bit(mode) == \E k \in {1, 8, 64} : (mode \div k) % 2 = 1

(***************************************************************************)
(* C8.  Permission preservation: after a successful producer run the       *)
(* output file's permission bits are the input file's; an input without    *)
(* any execute bit has then been warned about.                             *)
(***************************************************************************)
C8_Permissions ==
    p_pc = "done" =>
        /\ p_exit_code = 0
        /\ out_file.kind = "file"
        /\ out_file.mode = in_file.mode
        /\ ~has_execute_bit(in_file.mode) =>
              "warn: input file is not executable" \in p_log

\* a successful run over an input that is not executable, onto a file that
\* existed with other permission bits
C8_Witness ==
    /\ p_pc = "done"
    /\ ~has_execute_bit(in_file.mode)
    /\ "warn: input file is not executable" \in p_log
    /\ out_before.kind = "file"
    /\ out_before.mode # in_file.mode
    /\ out_file.mode = in_file.mode

(***************************************************************************)
(* C9.  Unreadable input: when the input cannot be opened (it does not     *)
(* exist) or cannot be read (it is a directory), the run ends with a       *)
(* non-zero status before the output path is touched and before any worker *)
(* thread is started.                                                      *)
(***************************************************************************)
C9_UnreadableInput ==
    (p_pc # "idle" /\ in_file.kind \in {"absent", "dir"}) =>
        /\ p_pc \in {"start", "opened", "failed"}
        /\ out_file = out_before
        /\ hash_thread.state = "none"
        /\ compress_thread.state = "none"
        /\ p_pc = "failed" => p_exit_code \notin {None, 0}
        /\ p_pc \in {"start", "opened"} => ENABLED (P_Open \/ P_Read)

\* a run that ended on an input that opens but does not read, with a file
\* already at the output path
C9_Witness ==
    /\ p_pc = "failed"
    /\ in_file.kind = "dir"
    /\ out_before.kind = "file"
    /\ out_file = out_before

replacement_failed ==
    /\ replacement.state = "finished"
    /\ ~(replacement.open_ok /\ replacement.write_ok /\ replacement.sync_ok)

(***************************************************************************)
(* C10.  Best-effort replacement: when the replacement thread has ended    *)
(* without replacing the file (the open, the write or the flush failed), a *)
(* warning about the replacement has been logged, and the main thread goes *)
(* on to the exec.                                                         *)
(***************************************************************************)
C10_ReplacementFailureWarned ==
    replacement_failed =>
        /\ "warn: Failed to open original file for replacement" \in r_log
        /\ r_pc \in {"spawned", "command_built", "joined", "launched", "failed", "panicked"}
        /\ r_pc = "command_built" => ENABLED R_Join
        /\ r_pc = "joined" => ENABLED R_Exec

\* positions of the main thread after dcmprs_data was loaded
after_load ==
    {"loaded", "created", "wrote_dcmprs", "wrote_magic", "wrote_separator",
     "wrote_hash", "wrote_compressed", "done"}

\* positions of the main thread after the bootstrap image was written
after_bootstrap ==
    {"wrote_dcmprs", "wrote_magic", "wrote_separator", "wrote_hash",
     "wrote_compressed", "done"}

(***************************************************************************)
(* C11.  Variant fallback: when the universal image is asked for and the   *)
(* table lacks it but has "main", the run loads "main", logs the fallback  *)
(* and goes on; the load is fatal only when the image it would use is      *)
(* missing; and a run writes one image, the one it loaded, at the start of *)
(* the output.                                                             *)
(***************************************************************************)
C11_VariantFallback ==
    LET asked   == p_args.build_universal_macos
        has_uni == "macos_universal" \in DOMAIN DIST_DIR
        has_main == "main" \in DOMAIN DIST_DIR
        fatal   == p_pc = "panicked" /\ dcmprs_data = << >>
    IN  /\ (asked /\ ~has_uni /\ has_main /\ p_pc \in after_load \cup {"panicked"}) =>
              /\ dcmprs_data = DIST_DIR["main"]
              /\ "error: universal macOS binary not found, falling back" \in p_log
        /\ fatal => ~has_main /\ ~(asked /\ has_uni)
        /\ (p_pc = "compress_spawned" /\ (has_main \/ (asked /\ has_uni))) =>
              ENABLED (P_LoadDcmprs /\ p_pc' = "loaded")
        /\ p_pc \in after_load =>
              \E n \in DOMAIN DIST_DIR : dcmprs_data = DIST_DIR[n]
        /\ p_pc \in after_bootstrap =>
              /\ Slice(out_file.content, 0, Len(dcmprs_data)) = dcmprs_data
              /\ p_pc = "wrote_dcmprs" => out_file.content = dcmprs_data
              /\ p_pc # "wrote_dcmprs" =>
                    Slice(out_file.content, Len(dcmprs_data),
                          Len(dcmprs_data) + Len(MAGIC_HEADER)) = MAGIC_HEADER

\* a completed run that asked for the universal image and fell back to "main"
C11_Witness ==
    /\ p_pc = "done"
    /\ p_args.build_universal_macos
    /\ "macos_universal" \notin DOMAIN DIST_DIR
    /\ dcmprs_data = DIST_DIR["main"]
    /\ "error: universal macOS binary not found, falling back" \in p_log

\* positions of the main thread between File::create and the end of the run
after_create ==
    {"created", "wrote_dcmprs", "wrote_magic", "wrote_separator", "wrote_hash",
     "wrote_compressed"}

(***************************************************************************)
(* C12.  Write order: in every interleaving each step that changes the     *)
(* output's bytes appends the next piece in the order bootstrap, marker,   *)
(* (separator,) digest, compressed payload; the digest is appended only    *)
(* when the hash thread has finished and the payload only when the         *)
(* compression thread has finished; the permission bits change only when   *)
(* the payload is in the file, and the bytes do not change then.           *)
(***************************************************************************)
C12_WriteOrder ==
    [][ LET f    == out_file.content
            g    == out_file'.content
            d    == dcmprs_data
            dm   == d \o MAGIC_HEADER
            dms  == dm \o SEPARATOR
            dmsh == dms \o hash_thread.result
            full == dmsh \o compress_thread.result
        IN  p_pc \in after_create =>
              /\ g # f =>
                    \/ f = << >> /\ g = d
                    \/ f = d /\ g = dm
                    \/ f = dm /\ g = dms
                    \/ /\ f = dms
                       /\ hash_thread.state = "finished"
                       /\ g = dmsh
                    \/ /\ f = dmsh
                       /\ hash_thread.state = "finished"
                       /\ compress_thread.state = "finished"
                       /\ g = full
              /\ out_file'.mode # out_file.mode =>
                    /\ hash_thread.state = "finished"
                    /\ compress_thread.state = "finished"
                    /\ f = full
                    /\ g = f
      ]_vars

\* a completed run: all five pieces in the file, the permission bits changed
C12_Witness ==
    /\ p_pc = "done"
    /\ out_file.content = dcmprs_data \o MAGIC_HEADER \o SEPARATOR
                            \o hash_thread.result \o compress_thread.result
    /\ out_file.mode = input_permissions
    /\ out_before.kind = "file"
    /\ out_before.mode # input_permissions

(***************************************************************************)
(* C13.  Consistency at the handoff: when the main thread is about to exec *)
(* (the replacement thread joined), the file at the original path holds    *)
(* either the container it was started as or the whole decompressed        *)
(* program, never an empty or partly written file.                         *)
(***************************************************************************)
C13_ConsistentAtExec ==
    r_pc = "joined" => exe_file.content \in {exe_before, decompressed_data}

\* the steps of one run of dcmprs, in the order of main()
r_steps ==
    <<"idle", "read", "located", "checked", "decompressed", "materialized",
      "args_collected", "spawned", "command_built", "joined", "launched">>

r_step(pc) == CHOOSE i \in 1 .. Len(r_steps) : r_steps[i] = pc

(***************************************************************************)
(* C14.  Single pass: the main thread of dcmprs only ever moves from a     *)
(* step to the next one of read, locate, check, decompress, materialize,   *)
(* collect arguments, spawn the replacement, build the command, join,      *)
(* exec, or ends the run, and never moves once the run has ended; the      *)
(* replacement thread exists only after the payload was decompressed and   *)
(* the temporary file written, it only moves forward, and the exec is      *)
(* attempted only when it has finished.                                    *)
(***************************************************************************)
C14_SinglePass ==
    [][ /\ r_pc' # r_pc =>
              /\ ~r_terminated
              /\ \/ r_pc' \in {"exited", "failed", "panicked"}
                 \/ r_step(r_pc') = r_step(r_pc) + 1
        /\ replacement'.state # "none" =>
              /\ r_step(IF r_pc \in {"failed", "panicked"} THEN "spawned" ELSE r_pc)
                    >= r_step("args_collected")
              /\ ZstdDecode(compressed_data).ok
              /\ decompressed_data = ZstdDecode(compressed_data).data
              /\ r_pc = "args_collected" =>
                    temp_file = [kind |-> "file", content |-> decompressed_data, mode |-> 493]
        /\ replacement'.state # replacement.state =>
              <<replacement.state, replacement'.state>> \in
                 {<<"none", "running">>, <<"running", "opened">>, <<"running", "finished">>,
                  <<"opened", "written">>, <<"written", "finished">>}
        /\ (r_pc = "joined" \/ r_pc' = "launched" \/ r_diag' = "Error: exec") =>
              replacement.state = "finished" /\ replacement'.state = "finished"
      ]_vars

\* an exec attempted after a replacement that ran through open, write and flush
C14_Witness ==
    /\ r_pc = "launched"
    /\ replacement.state = "finished"
    /\ replacement.open_ok /\ replacement.write_ok
    /\ exe_file.content = decompressed_data

\* S_IXUSR
owner_execute(mode) == BitAnd(mode, 64) # 0

\* the temporary file as main() wrote it: the decompressed bytes, executable
temp_file_intact ==
    /\ temp_file.kind = "file"
    /\ temp_file.content = decompressed_data
    /\ owner_execute(temp_file.mode)

(***************************************************************************)
(* C15.  The command handed to exec names the temporary file, never the    *)
(* original path; from its creation up to and including the moment of the  *)
(* exec the temporary file exists, holds exactly the decompressed bytes    *)
(* and has the owner execute bit; a program that was launched is the       *)
(* temporary file.                                                         *)
(***************************************************************************)
C15_LaunchesTempFile ==
    /\ r_pc \in {"materialized", "args_collected", "spawned", "command_built",
                 "joined", "launched"} => temp_file_intact
    /\ r_pc \in {"command_built", "joined", "launched"} => cmd.program = "temp_path"
    /\ r_pc = "joined" => ENABLED (R_Exec /\ launched'.program = "temp_path")
    /\ r_pc = "launched" => launched.program = "temp_path"
    /\ launched # NoProcess => launched.program = "temp_path"

\* a launch after the original path was rewritten: the two files hold the
\* same bytes and the one launched is still the temporary file
C15_Witness ==
    /\ r_pc = "launched"
    /\ launched.program = "temp_path"
    /\ replacement.open_ok
    /\ exe_file.content = temp_file.content
    /\ temp_file_intact

\* the marker search has been done on the buffer read
located == r_pc \notin {"idle", "read"}

(***************************************************************************)
(* C16.  On every buffer the runtime reads, find_magic_header returns the  *)
(* smallest offset at which the 16 marker bytes occur, and none exactly    *)
(* when they occur nowhere (also when the marker is the last 16 bytes of   *)
(* the buffer, and when the buffer is shorter than the marker); a run on a *)
(* file without the marker ends as marker-not-found.                       *)
(***************************************************************************)
C16_FindMagicHeader ==
    located =>
       /\ find_magic_header(buffer) =
             IF marker_offsets(buffer) = {} THEN None ELSE Min(marker_offsets(buffer))
       /\ magic_pos = find_magic_header(buffer)
       /\ marker_offsets(buffer) = {} =>
             /\ r_pc = "exited"
             /\ r_diag = "warn: No magic header found"

\* the reader read the file after the truncating open and before the write
read_in_window == reader.state = "read" /\ reader.during = "opened"

(***************************************************************************)
(* C17.  Truncate-then-write is not atomic for a concurrent reader: at     *)
(* every moment between the truncating open and the write a second process *)
(* can read the file, and what it reads then is the empty file, which is   *)
(* not the original container and, for a program that is not empty, not    *)
(* the decompressed program either.                                        *)
(***************************************************************************)
C17_TornRead ==
    /\ (replacement.state = "opened" /\ reader.state = "idle") =>
          /\ exe_file.content = << >>
          /\ ENABLED Reader_Read
    /\ read_in_window =>
          /\ reader.buffer = << >>
          /\ reader.buffer # exe_before
          /\ decompressed_data # << >> => reader.buffer # decompressed_data

\* such a reader, with the replacement since completed on a program of 2 bytes
C17_Witness ==
    /\ read_in_window
    /\ reader.buffer \notin {exe_before, decompressed_data}
    /\ replacement.state = "finished" /\ replacement.write_ok
    /\ exe_file.content = decompressed_data
    /\ Len(decompressed_data) = 2

\* the replacement thread ran to its end with open, write and flush succeeding
replacement_succeeded ==
    /\ replacement.state = "finished"
    /\ replacement.open_ok /\ replacement.write_ok /\ replacement.sync_ok

(***************************************************************************)
(* C18.  Once the replacement thread has opened the original path and its  *)
(* write and flush have succeeded, the file at that path is, from then on, *)
(* byte for byte the decompressed program: it is no longer the container,  *)
(* it holds no marker, it is still executable, and a process that reads    *)
(* the path afterwards gets the program.                                   *)
(***************************************************************************)
C18_ReplacedByProgram ==
    replacement_succeeded =>
       /\ exe_file.kind = "file"
       /\ exe_file.content = decompressed_data
       /\ exe_file.content # exe_before
       /\ marker_offsets(exe_file.content) = {}
       /\ find_magic_header(exe_file.content) = None
       /\ owner_execute(exe_file.mode)
       /\ (reader.state = "read" /\ reader.during = "finished") =>
             reader.buffer = decompressed_data

\* the program was launched and a later read of the original path got it
C18_Witness ==
    /\ replacement_succeeded
    /\ r_pc = "launched"
    /\ reader.state = "read" /\ reader.during = "finished"
    /\ reader.buffer = decompressed_data
    /\ Len(decompressed_data) = 2

\* what the output holds when everything before the payload was written
head_of_output == dcmprs_data \o MAGIC_HEADER \o SEPARATOR \o Sha256(input)

is_prefix(a, b) == Len(a) <= Len(b) /\ a = Slice(b, 0, Len(a))

compression_failed == compress_thread.state = "panicked"

(***************************************************************************)
(* C19.  Compression failure: once the compression thread has failed, the  *)
(* producer never writes a payload, never reaches the permission step and  *)
(* never ends with status 0; the join of the thread ends the run with a    *)
(* non-zero status.  The output, if the run got to create it, holds some   *)
(* prefix of bootstrap, marker, separator and digest and nothing more.     *)
(***************************************************************************)
C19_CompressionFailure ==
    compression_failed =>
       /\ p_pc \notin {"wrote_compressed", "done"}
       /\ p_exit_code # 0
       /\ p_pc \in {"failed", "panicked"} => p_exit_code \in {1, 101}
       /\ p_pc = "wrote_hash" =>
             /\ ENABLED P_WriteCompressed
             /\ ~ENABLED (P_WriteCompressed /\ p_pc' # "panicked")
             /\ ~ENABLED P_SetPermissions
       /\ out_file # out_before =>
             /\ is_prefix(out_file.content, head_of_output)
             /\ out_file.mode = IF out_before.kind = "file" THEN out_before.mode ELSE 420

\* the run ended at the join of the failed thread, the digest already written
C19_Witness ==
    /\ compression_failed
    /\ p_pc = "panicked"
    /\ p_exit_code = 101
    /\ out_file.content = head_of_output
    /\ input # << >>

\* the bytes of a complete output, as a function of the input file, the
\* bootstrap image loaded and the compression level
output_of(file, image, level) ==
    image \o MAGIC_HEADER \o SEPARATOR \o Sha256(file) \o ZstdEncode(file, level)

\* the input buffer has been handed to the worker threads
input_shared == hash_thread.state # "none" \/ compress_thread.state # "none"

(***************************************************************************)
(* C20.  Deterministic output: under every interleaving of the hash        *)
(* thread, the compression thread and the main thread, the bytes in the    *)
(* output are determined by the input file, the bootstrap image and the    *)
(* level alone.  The shared buffer holds the input file's bytes for as     *)
(* long as it is shared; a finished worker's result depends on the input   *)
(* (and the level) only, whatever the other worker has done.               *)
(***************************************************************************)
C20_DeterministicOutput ==
    /\ input_shared => input = in_file.content
    /\ hash_thread.state = "finished" => hash_thread.result = Sha256(in_file.content)
    /\ compress_thread.state = "finished" =>
          compress_thread.result = ZstdEncode(in_file.content, p_args.compression_level)
    /\ p_pc \in after_create =>
          is_prefix(out_file.content,
                    output_of(in_file.content, dcmprs_data, p_args.compression_level))
    /\ p_pc \in {"wrote_compressed", "done"} =>
          out_file.content =
             output_of(in_file.content, dcmprs_data, p_args.compression_level)

\* a completed run on an input of 2 bytes at the level that uses run lengths
C20_Witness ==
    /\ p_pc = "done"
    /\ Len(in_file.content) = 2
    /\ p_args.compression_level = 3
    /\ out_file.content =
          output_of(in_file.content, dcmprs_data, p_args.compression_level)

=============================================================================
